---- MODULE Spec2Model ----
(***************************************************************************)
(* A model of voicevox-dyn (src/src/lib.rs): the VoiceVox session, its     *)
(* first-run provisioning through the downloader child process, the        *)
(* InitOptions value with its raw dictionary-path string, and the          *)
(* CPointerWrap buffer that frees foreign memory when dropped.             *)
(*                                                                         *)
(* The foreign library is opaque: every foreign call may return any        *)
(* ResultCode.  Ownership rules the Rust compiler enforces (a value that   *)
(* is borrowed cannot be dropped) appear as guards.                        *)
(***************************************************************************)
EXTENDS Integers, Sequences, FiniteSets, TLC

\* ------------------------------------------------------------------ bounds
MaxSessions == 2
MaxWavs == 2
MaxCStr == 3
MaxClones == 2
MaxTextLen == 2
PipeCap == 2
MaxOutput == 3

\* --------------------------------------------------------------- the state
VARIABLES
    fs,        \* the executable's directory: which files exist
    pc,        \* the calling thread: "idle", or "wait" inside child.wait()
    child,     \* the downloader child process
    pipe,      \* bytes sitting unread in the child's stdout / stderr pipes
    sessions,  \* VoiceVox values: the library handle and the init flag
    hist,      \* per session: foreign initialize invocations so far
    wavs,      \* buffers the foreign tts has allocated, with their wav_free count
    bufs,      \* live CPointerWrap values
    cstrs,     \* dictionary-path strings made by InitOptions::new
    halted,    \* "no", "panicked" (unwinding) or "aborted"
    last       \* what the most recent call did and returned

vars == <<fs, pc, child, pipe, sessions, hist, wavs, bufs, cstrs, halted, last>>

Sessions == 1..MaxSessions
Streams == {"stdout", "stderr"}
ExitStatuses == {0, 1}

\* enum ResultCode, in the order of its discriminants 0..13
ResultCode == <<"Ok", "NotLoadedOpenjtalkDictError", "LoadModelError",
    "GetSupportedDevicesError", "GpuSupportError", "LoadMetasError",
    "UninitializedStatusError", "InvalidSpeakerIdError", "InvalidModelIndexError",
    "InferenceError", "ExtractFullContextLabelError", "InvalidUtf8InputError",
    "ParseKanaError", "InvalidAudioQueryError">>

ResultCodes == {ResultCode[i] : i \in DOMAIN ResultCode}

\* enum AccelerationMode and the i32 InitOptions::new stores for it
AccelerationMode == {"Auto", "Cpu", "Gpu"}

acceleration_mode(m) == CASE m = "Auto" -> 0 [] m = "Cpu" -> 1 [] m = "Gpu" -> 2

\* struct TtsOptions; Default gives both false
TtsOptions == [kana : BOOLEAN, enable_interrogative_upspeak : BOOLEAN]

\* inputs of the calls
Threads == {1, 4}
SpeakerIds == {4}
Bytes == {0, 97}
Texts == UNION {[1..n -> Bytes] : n \in 0..MaxTextLen}
WavLengths == {44}
Args == {<<>>, <<"--device", "cuda">>}

\* What `last` keeps of a foreign call's ResultCode rc: the call returned Ok,
\* or Err(rc) with one of the thirteen other codes.
Returned(rc) == IF rc = "Ok" THEN "Ok" ELSE "ResultCode"

\* The results a call can end with that are neither Ok nor a panic.
IsErr(result) == result \notin {"Ok", "panic", "none"}

NoCall == [op |-> "none", sess |-> 0, result |-> "none", wasInit |-> FALSE,
           invoked |-> 0, dllExisted |-> FALSE, net |-> 0, created |-> FALSE,
           spawned |-> FALSE, exit |-> 0, opened |-> FALSE, nul |-> FALSE,
           wrapped |-> 0]

NoChild == [state |-> "none", argv |-> <<>>, todo |-> [f \in Streams |-> 0], status |-> 0]

EmptyPipe == [f \in Streams |-> 0]

Init ==
    /\ \E present \in BOOLEAN :
           fs = [dll |-> present, dict |-> present, downloader |-> present]
    /\ pc = "idle"
    /\ child = NoChild
    /\ pipe = EmptyPipe
    /\ sessions = [s \in Sessions |-> [fns |-> "none", init |-> FALSE]]
    /\ hist = [s \in Sessions |-> [invoked |-> 0, okCalls |-> 0, okInvoked |-> 0]]
    /\ wavs = <<>>
    /\ bufs = {}
    /\ cstrs = <<>>
    /\ halted = "no"
    /\ last = NoCall

\* ------------------------------------------------------------ provisioning

\* A load_with_args that never takes the library file for present.
DllExistsNever == FALSE

\* dll.exists()
DllExists == fs.dll

\* The slot the next VoiceVox value takes.
FreeSessions == {s \in Sessions : sessions[s].fns = "none"}

NextSession == CHOOSE s \in FreeSessions : \A t \in FreeSessions : s <= t

\* The unsafe block of load_with_args: Library::new(dll).unwrap(), the four
\* lib.get(..).unwrap(), and Ok(Self { fns, init: false }).  `call` is the
\* record of the call so far.
OpenLibrary(call) ==
    \E loads \in (IF fs.dll THEN BOOLEAN ELSE {FALSE}) :
        IF loads
        THEN /\ sessions' = [sessions EXCEPT ![NextSession] = [fns |-> "open", init |-> FALSE]]
             /\ last' = [call EXCEPT !.sess = NextSession, !.opened = TRUE, !.result = "Ok"]
             /\ halted' = halted
        ELSE /\ sessions' = sessions
             /\ last' = [call EXCEPT !.opened = TRUE, !.result = "panic"]
             /\ halted' = "panicked"

\* load_with_args up to the point where it blocks in child.wait(); with the
\* library file present it runs to its end.
load_with_args(args) ==
    /\ pc = "idle"
    /\ halted = "no"
    /\ FreeSessions # {}
    /\ LET call == [NoCall EXCEPT !.op = "load", !.dllExisted = fs.dll] IN
       IF DllExists
       THEN /\ OpenLibrary(call)
            /\ UNCHANGED <<fs, pc, child, pipe>>
       ELSE \E outcome \in {"url_err", "net_err", "create_err", "copy_err",
                            "chmod_panic", "spawn_err", "spawned"} :
            CASE outcome = "url_err" ->
                     /\ last' = [call EXCEPT !.result = "UnsupportedPlatform"]
                     /\ UNCHANGED <<fs, pc, child, pipe, sessions, halted>>
              [] outcome = "net_err" ->
                     /\ last' = [call EXCEPT !.net = 1, !.result = "UreqError"]
                     /\ UNCHANGED <<fs, pc, child, pipe, sessions, halted>>
              [] outcome = "create_err" ->
                     /\ last' = [call EXCEPT !.net = 1, !.result = "IoError"]
                     /\ UNCHANGED <<fs, pc, child, pipe, sessions, halted>>
              [] outcome = "copy_err" ->
                     /\ fs' = [fs EXCEPT !.downloader = TRUE]
                     /\ last' = [call EXCEPT !.net = 1, !.created = TRUE, !.result = "IoError"]
                     /\ UNCHANGED <<pc, child, pipe, sessions, halted>>
              [] outcome = "chmod_panic" ->
                     /\ fs' = [fs EXCEPT !.downloader = TRUE]
                     /\ last' = [call EXCEPT !.net = 1, !.created = TRUE, !.result = "panic"]
                     /\ halted' = "panicked"
                     /\ UNCHANGED <<pc, child, pipe, sessions>>
              [] outcome = "spawn_err" ->
                     /\ fs' = [fs EXCEPT !.downloader = TRUE]
                     /\ last' = [call EXCEPT !.net = 1, !.created = TRUE, !.result = "IoError"]
                     /\ UNCHANGED <<pc, child, pipe, sessions, halted>>
              [] outcome = "spawned" ->
                     /\ fs' = [fs EXCEPT !.downloader = TRUE]
                     /\ \E out \in 0..MaxOutput : \E err \in 0..(MaxOutput - out) :
                            child' = [state |-> "running",
                                      argv |-> <<"-o", "exe_path">> \o args,
                                      todo |-> [f \in Streams |->
                                                   IF f = "stdout" THEN out ELSE err],
                                      status |-> 0]
                     /\ pipe' = EmptyPipe
                     /\ pc' = "wait"
                     /\ last' = [call EXCEPT !.net = 1, !.created = TRUE, !.spawned = TRUE,
                                             !.result = "none"]
                     /\ UNCHANGED <<sessions, halted>>
    /\ UNCHANGED <<hist, wavs, bufs, cstrs>>

\* The downloader writes one unit to a redirected stream.  Nobody reads the
\* pipes (Stdio::piped(), and the reader threads are commented out), so a
\* write needs room in the pipe.
child_write(f) ==
    /\ child.state = "running"
    /\ child.todo[f] > 0
    /\ pipe[f] < PipeCap
    /\ child' = [child EXCEPT !.todo[f] = @ - 1]
    /\ pipe' = [pipe EXCEPT ![f] = @ + 1]
    /\ UNCHANGED <<fs, pc, sessions, hist, wavs, bufs, cstrs, halted, last>>

\* The downloader exits once it has written all its output.  With status 0 it
\* has put the library and the dictionary into the directory; a downloader
\* that fails may have put the library there before it failed.
child_exit(status) ==
    /\ child.state = "running"
    /\ \A f \in Streams : child.todo[f] = 0
    /\ child' = [child EXCEPT !.state = "exited", !.status = status]
    /\ \E library \in (IF status = 0 THEN {TRUE} ELSE BOOLEAN) :
           fs' = [fs EXCEPT !.dll = library, !.dict = (status = 0)]
    /\ UNCHANGED <<pc, pipe, sessions, hist, wavs, bufs, cstrs, halted, last>>

\* child.wait()? returns and load_with_args runs on to its end.
load_with_args_wait ==
    /\ pc = "wait"
    /\ child.state = "exited"
    /\ OpenLibrary([last EXCEPT !.exit = child.status])
    /\ pc' = "idle"
    /\ child' = NoChild
    /\ pipe' = EmptyPipe
    /\ UNCHANGED <<fs, hist, wavs, bufs, cstrs>>

\* --------------------------------------------------------------- InitOptions

\* download_path()?.join("open_jtalk_dic_utf_8-1.11").canonicalize()? succeeds
\* exactly when the dictionary directory exists.
PathResolves == fs.dict

\* The raw pointer CString::new(..).unwrap().into_raw() hands out next.
NewCStr == Len(cstrs) + 1

\* The struct InitOptions::new builds on success.
InitOptions(mode, threads, all, ptr) ==
    [acceleration_mode |-> acceleration_mode(mode), cpu_num_threads |-> threads,
     load_all_models |-> all, open_jtalk_dict_dir |-> ptr]

\* A caller's own InitOptions::new (the type and its constructor are pub).
InitOptions_new(mode, threads, all) ==
    /\ pc = "idle"
    /\ halted = "no"
    /\ PathResolves => Len(cstrs) < MaxCStr
    /\ IF PathResolves
       THEN LET o == InitOptions(mode, threads, all, NewCStr) IN
            /\ cstrs' = [p \in 1..o.open_jtalk_dict_dir |->
                            IF p = o.open_jtalk_dict_dir
                            THEN [live |-> 1, frees |-> 0, moved |-> FALSE]
                            ELSE cstrs[p]]
            /\ last' = [NoCall EXCEPT !.op = "new", !.result = "Ok"]
       ELSE /\ cstrs' = cstrs
            /\ last' = [NoCall EXCEPT !.op = "new", !.result = "IoError"]
    /\ UNCHANGED <<fs, pc, child, pipe, sessions, hist, wavs, bufs, halted>>

\* #[derive(Clone)]: the clone holds the same raw pointer.
InitOptions_clone(p) ==
    /\ pc = "idle"
    /\ halted = "no"
    /\ p \in DOMAIN cstrs
    /\ cstrs[p].live >= 1
    /\ cstrs[p].live + cstrs[p].frees < MaxClones
    /\ cstrs' = [cstrs EXCEPT ![p].live = @ + 1]
    /\ UNCHANGED <<fs, pc, child, pipe, sessions, hist, wavs, bufs, halted, last>>

\* impl Drop for InitOptions: drop(CString::from_raw(ptr)).  Freeing a
\* pointer that was freed before is undefined: the process aborts or goes on.
InitOptions_drop(p) ==
    /\ pc = "idle"
    /\ halted \in {"no", "panicked"}
    /\ p \in DOMAIN cstrs
    /\ cstrs[p].live >= 1
    /\ cstrs' = [cstrs EXCEPT ![p].live = @ - 1, ![p].frees = @ + 1]
    /\ \E outcome \in (IF cstrs[p].frees >= 1 THEN {halted, "aborted"} ELSE {halted}) :
           halted' = outcome
    /\ UNCHANGED <<fs, pc, child, pipe, sessions, hist, wavs, bufs, last>>

\* ------------------------------------------------------------------- VoiceVox

\* An init without its early return.
AlreadyInitializedNever(s) == FALSE

\* if self.init { return Ok(()) }
AlreadyInitialized(s) == sessions[s].init

\* VoiceVox::init
init(s, mode, threads, all) ==
    /\ pc = "idle"
    /\ halted = "no"
    /\ sessions[s].fns = "open"
    /\ PathResolves => Len(cstrs) < MaxCStr
    /\ LET call == [NoCall EXCEPT !.op = "init", !.sess = s,
                                  !.wasInit = sessions[s].init] IN
       IF ~PathResolves
       THEN \* InitOptions::new(..)? returns the error
            /\ last' = [call EXCEPT !.result = "IoError"]
            /\ UNCHANGED <<sessions, hist, cstrs>>
       ELSE LET opts == InitOptions(mode, threads, all, NewCStr)
                ptr == opts.open_jtalk_dict_dir
                made(c) == [p \in 1..ptr |-> IF p = ptr THEN c ELSE cstrs[p]]
            IN
            IF AlreadyInitialized(s)
            THEN \* return Ok(()): opts goes out of scope and is dropped
                 /\ cstrs' = made([live |-> 0, frees |-> 1, moved |-> FALSE])
                 /\ hist' = [hist EXCEPT ![s].okCalls = @ + 1]
                 /\ last' = [call EXCEPT !.result = "Ok"]
                 /\ UNCHANGED sessions
            ELSE \* (self.fns.borrow_init())(opts): opts is moved into the
                 \* foreign function, which does not run its Drop
                 \E rc \in ResultCodes :
                     /\ cstrs' = made([live |-> 0, frees |-> 0, moved |-> TRUE])
                     /\ IF rc = "Ok"
                        THEN /\ sessions' = [sessions EXCEPT ![s].init = TRUE]
                             /\ hist' = [hist EXCEPT ![s].invoked = @ + 1,
                                                     ![s].okCalls = @ + 1,
                                                     ![s].okInvoked = @ + 1]
                        ELSE /\ sessions' = sessions
                             /\ hist' = [hist EXCEPT ![s].invoked = @ + 1]
                     /\ last' = [call EXCEPT !.invoked = 1, !.result = Returned(rc)]
    /\ UNCHANGED <<fs, pc, child, pipe, wavs, bufs, halted>>

\* VoiceVox::load_model
load_model(s, speaker_id) ==
    /\ pc = "idle"
    /\ halted = "no"
    /\ sessions[s].fns = "open"
    /\ \E rc \in ResultCodes :
           last' = [NoCall EXCEPT !.op = "load_model", !.sess = s,
                                  !.wasInit = sessions[s].init,
                                  !.invoked = 1, !.result = Returned(rc)]
    /\ UNCHANGED <<fs, pc, child, pipe, sessions, hist, wavs, bufs, cstrs, halted>>

\* std::ffi::CString::new(text) is an error exactly when text holds a 0 byte.
CStringNewFails(text) == \E i \in DOMAIN text : text[i] = 0

\* CPointerWrap::new(output_wav, output_wav_length, self.fns.borrow_wav_free())
CPointerWrap_new(bytes, length, free_fn) ==
    [bytes |-> bytes, length |-> length, free_fn |-> free_fn]

\* VoiceVox::tts
tts(s, text, speaker_id, opts) ==
    /\ pc = "idle"
    /\ halted = "no"
    /\ sessions[s].fns = "open"
    /\ LET call == [NoCall EXCEPT !.op = "tts", !.sess = s,
                                  !.wasInit = sessions[s].init,
                                  !.nul = CStringNewFails(text)] IN
       IF CStringNewFails(text)
       THEN \* CString::new(text).unwrap() panics
            /\ last' = [call EXCEPT !.result = "panic"]
            /\ halted' = "panicked"
            /\ UNCHANGED <<wavs, bufs>>
       ELSE \E rc \in ResultCodes : \E len \in WavLengths :
            /\ rc = "Ok" => Len(wavs) < MaxWavs
            /\ halted' = halted
            /\ IF rc = "Ok"
               THEN LET output_wav == Len(wavs) + 1 IN
                    /\ wavs' = Append(wavs, [sess |-> s, frees |-> 0, afterClose |-> FALSE])
                    /\ bufs' = bufs \cup {CPointerWrap_new(output_wav, len, s)}
                    /\ last' = [call EXCEPT !.invoked = 1, !.result = Returned(rc),
                                            !.wrapped = output_wav]
               ELSE /\ last' = [call EXCEPT !.invoked = 1, !.result = Returned(rc)]
                    /\ UNCHANGED <<wavs, bufs>>
    /\ UNCHANGED <<fs, pc, child, pipe, sessions, hist, cstrs>>

\* A CPointerWrap whose drop does not call free_fn.
CPointerWrap_drop_leak(b) ==
    /\ pc = "idle"
    /\ halted \in {"no", "panicked"}
    /\ b \in bufs
    /\ bufs' = bufs \ {b}
    /\ UNCHANGED <<fs, pc, child, pipe, sessions, hist, wavs, cstrs, halted, last>>

\* impl Drop for CPointerWrap: (self.free_fn)(self.bytes).  Calling into a
\* library that has been unloaded is undefined: the process aborts or goes on.
CPointerWrap_drop(b) ==
    /\ pc = "idle"
    /\ halted \in {"no", "panicked"}
    /\ b \in bufs
    /\ bufs' = bufs \ {b}
    /\ wavs' = [wavs EXCEPT ![b.bytes].frees = @ + 1,
                            ![b.bytes].afterClose = (sessions[b.free_fn].fns # "open")]
    /\ \E outcome \in (IF sessions[b.free_fn].fns # "open"
                       THEN {halted, "aborted"} ELSE {halted}) :
           halted' = outcome
    /\ UNCHANGED <<fs, pc, child, pipe, sessions, hist, cstrs, last>>

\* A CPointerWrap that holds a copy of the function pointer, not a borrow.
BorrowedNever(s) == FALSE

\* CPointerWrap<'a, T> holds free_fn: &'a Symbol<'a, ..>, a borrow of the
\* session tts was called on: while such a buffer lives the session is borrowed.
Borrowed(s) == \E b \in bufs : b.free_fn = s

\* The VoiceVox value goes out of scope: VoiceVoxFns drops its four symbols
\* and then the Library, which unloads it.  The compiler rejects the drop of a
\* borrowed value.
VoiceVox_drop(s) ==
    /\ pc = "idle"
    /\ halted \in {"no", "panicked"}
    /\ sessions[s].fns = "open"
    /\ ~Borrowed(s)
    /\ sessions' = [sessions EXCEPT ![s].fns = "closed"]
    /\ UNCHANGED <<fs, pc, child, pipe, hist, wavs, bufs, cstrs, halted, last>>

\* ---------------------------------------------------------------- environment

\* Somebody removes the dictionary directory from the executable's directory.
remove_dict ==
    /\ fs.dict
    /\ fs' = [fs EXCEPT !.dict = FALSE]
    /\ UNCHANGED <<pc, child, pipe, sessions, hist, wavs, bufs, cstrs, halted, last>>

\* ------------------------------------------------------------- specifications

\* load / load_with_args with the downloader child it waits for.
Provision ==
    \/ \E args \in Args : load_with_args(args)
    \/ \E f \in Streams : child_write(f)
    \/ \E status \in ExitStatuses : child_exit(status)
    \/ load_with_args_wait

\* A program that loads sessions, on a first run or a later one, initializes
\* them, loads models and drops them.
Next ==
    \/ Provision
    \/ \E s \in Sessions, mode \in AccelerationMode, threads \in Threads, all \in BOOLEAN :
           init(s, mode, threads, all)
    \/ \E s \in Sessions, speaker_id \in SpeakerIds : load_model(s, speaker_id)
    \/ \E s \in Sessions : VoiceVox_drop(s)
    \/ remove_dict

Spec == Init /\ [][Next]_vars

\* The directory has been provisioned by an earlier run.
InitProvisioned == Init /\ fs.dll

\* A program that synthesizes speech and drops the buffers and the sessions.
NextBuf ==
    \/ \E args \in Args : load_with_args(args)
    \/ \E s \in Sessions, speaker_id \in SpeakerIds : load_model(s, speaker_id)
    \/ \E s \in Sessions, text \in Texts, speaker_id \in SpeakerIds, opts \in TtsOptions :
           tts(s, text, speaker_id, opts)
    \/ \E b \in bufs : CPointerWrap_drop(b)
    \/ \E s \in Sessions : VoiceVox_drop(s)

SpecBuf == InitProvisioned /\ [][NextBuf]_vars

\* A program that also makes, clones and drops InitOptions values of its own.
NextOpts ==
    \/ \E args \in Args : load_with_args(args)
    \/ \E s \in Sessions, mode \in AccelerationMode, threads \in Threads, all \in BOOLEAN :
           init(s, mode, threads, all)
    \/ \E mode \in AccelerationMode, threads \in Threads, all \in BOOLEAN :
           InitOptions_new(mode, threads, all)
    \/ \E p \in DOMAIN cstrs : InitOptions_clone(p)
    \/ \E p \in DOMAIN cstrs : InitOptions_drop(p)
    \/ remove_dict

SpecOpts == InitProvisioned /\ [][NextOpts]_vars

\* --------------------------------------------------------------------- claims

\* C1: init is idempotent towards the foreign library.  On every session, once
\* an init call has returned Ok, exactly one foreign initialize invocation has
\* been made by the init calls that returned Ok: the first of them made it
\* and each later one made none; and the flag is true after each of them.
C1_InitIdempotent ==
    \A s \in Sessions :
        /\ hist[s].okCalls >= 1 => (hist[s].okInvoked = 1 /\ sessions[s].init)
        /\ (last.op = "init" /\ last.sess = s /\ last.result = "Ok") =>
               /\ sessions[s].init
               /\ last.invoked = (IF hist[s].okCalls = 1 THEN 1 ELSE 0)

\* Two init calls on one session have returned Ok, the second just now.
C1_Witness ==
    /\ last.op = "init"
    /\ last.result = "Ok"
    /\ hist[last.sess].okCalls >= 2

\* C2: on a session whose flag is already true, every init call returns Ok
\* and invokes nothing, whatever the state of the dictionary directory.
C2_InitNoOpWhenInitialized ==
    (last.op = "init" /\ last.wasInit) => (last.result = "Ok" /\ last.invoked = 0)

\* C3: the flag is false after load, which invokes no foreign initialize; it
\* is true exactly on the sessions where a foreign initialize has returned Ok;
\* and an init call that fails returns an error and leaves the flag false.
C3_FlagLifecycle ==
    /\ \A s \in Sessions : sessions[s].init <=> hist[s].okInvoked >= 1
    /\ (last.op = "load" /\ last.result = "Ok") =>
           (~sessions[last.sess].init /\ hist[last.sess].invoked = 0)
    /\ (last.op = "init" /\ last.result # "Ok") =>
           (IsErr(last.result) /\ ~sessions[last.sess].init)

\* C4: tts on a text with an embedded 0 byte returns an error (it does not
\* panic), invokes no foreign function and wraps no buffer.
C4_NulTextIsAnError ==
    (last.op = "tts" /\ last.nul) =>
        (IsErr(last.result) /\ last.invoked = 0 /\ last.wrapped = 0)

\* C5: every buffer the foreign tts has allocated is wrapped by exactly one
\* CPointerWrap bound to the wav_free of the session that made it, and has seen
\* no wav_free while the wrapper lives and exactly one once it is dropped; a
\* tts that returns an error wraps nothing.
C5_FreedExactlyOnce ==
    /\ \A w \in DOMAIN wavs :
           LET holders == {b \in bufs : b.bytes = w} IN
           /\ Cardinality(holders) <= 1
           /\ wavs[w].frees = (IF holders = {} THEN 1 ELSE 0)
           /\ \A b \in holders : b.free_fn = wavs[w].sess
    /\ \A b \in bufs : b.bytes \in DOMAIN wavs
    /\ last.op = "tts" =>
           IF last.result = "Ok" THEN last.wrapped = Len(wavs) ELSE last.wrapped = 0

\* Two buffers have been wrapped and dropped: two wav_free invocations.
C5_Witness ==
    /\ Len(wavs) >= 2
    /\ bufs = {}
    /\ \A w \in DOMAIN wavs : wavs[w].frees = 1

\* C6: a load_with_args that finds the library file present makes no network
\* request, creates no downloader file and spawns no child before it opens
\* the library; a child is only ever waited for by a call that found it absent.
C6_NoProvisioningWhenLibraryExists ==
    /\ (last.op = "load" /\ last.dllExisted) =>
           (last.net = 0 /\ ~last.created /\ ~last.spawned /\ last.opened)
    /\ (pc = "wait" \/ child.state # "none") => (last.op = "load" /\ ~last.dllExisted)

\* The second load of a program has returned a session, the library present.
C6_Witness ==
    /\ last.op = "load"
    /\ last.dllExisted
    /\ last.result = "Ok"
    /\ last.sess >= 2

\* C7: when the downloader child has exited with a non-zero status,
\* load_with_args returns an error and does not go on to open the library.
C7_DownloaderFailureIsAnError ==
    (last.op = "load" /\ last.spawned /\ pc = "idle" /\ last.exit # 0) =>
        (IsErr(last.result) /\ ~last.opened)

\* C8: no foreign function is invoked through a closed library: every live
\* buffer's session is still open, and no wav_free was ever called after its
\* session's library was unloaded.
C8_NoCallAfterClose ==
    /\ \A b \in bufs : sessions[b.free_fn].fns = "open"
    /\ \A w \in DOMAIN wavs : ~wavs[w].afterClose
    /\ halted # "aborted"

\* A session has been dropped after a buffer of it was dropped.
C8_Witness ==
    \E w \in DOMAIN wavs : wavs[w].frees = 1 /\ sessions[wavs[w].sess].fns = "closed"

\* C9: the dictionary-path string of every InitOptions value is released
\* exactly once: never twice, and not left unreleased once no value owns it.
C9_DictStringReleasedOnce ==
    \A p \in DOMAIN cstrs :
        /\ cstrs[p].frees <= 1
        /\ cstrs[p].live = 0 => cstrs[p].frees = 1

\* The downloader can write to a stream with room in its pipe, or has no
\* output left and can exit.
ChildCanStep ==
    \/ \E f \in Streams : child.todo[f] > 0 /\ pipe[f] < PipeCap
    \/ \A f \in Streams : child.todo[f] = 0

\* C10: while load_with_args waits for the downloader's exit, the downloader
\* is never blocked on a write to its redirected streams.
C10_ParentAndChildNeverBothWait ==
    (pc = "wait" /\ child.state = "running") => ChildCanStep
====
